---------------------------- MODULE Spec2Model ----------------------------
(***************************************************************************)
(* Escape-time field generator of the Mandelbrot renderer                  *)
(* (mandelbrot-rust/src/main.rs): View::generate fans one row unit per     *)
(* raster row out to a thread pool, collects the tagged rows from an mpsc  *)
(* channel, sorts them by row index and returns the field.                 *)
(*                                                                         *)
(* Float (f64) values are modelled as exact rationals <<n, d>> in lowest   *)
(* terms with d > 0; a division by zero yields the value Inf.  Rounding of *)
(* f64 is not modelled.                                                    *)
(***************************************************************************)
EXTENDS Integers, Naturals, Sequences, FiniteSets, TLC

(***************************************************************************)
(* Bounds of the model.                                                    *)
(***************************************************************************)
MaxWidth == 2

MaxHeight == 2

MaxIter == 2

MaxCalls == 2

MaxPoolHeight == 5

MaxWasmIter == 2

MaxZooms == 3

WinWidth == 2

MaxEvents == 2

(***************************************************************************)
(* Program constants.                                                      *)
(***************************************************************************)
THREADS == 4

\* Palette::new pushes this many colours
colors_len == 255

\* main: let max_iterations = 256
main_max_iterations == 256

\* mandelbrot-wasm: const MAX_ITERATIONS
MAX_ITERATIONS == 255

\* An img_width no Vec<u16> can hold: vec![0; img_width] panics with "capacity
\* overflow" when img_width * 2 bytes exceed isize::MAX.  The number stands
\* for usize::MAX.
HugeWidth == 1000000

capacity_overflow(w) == w >= HugeWidth

(***************************************************************************)
(* State                                                                   *)
(***************************************************************************)
VARIABLES
    view,            \* self: the View generate is called on
    img_width,       \* arguments of generate, the same in every call
    img_height,
    max_iterations,
    pc,              \* the calling thread: "idle", "generate" or "returned"
    threads,         \* worker count of the call's ThreadPool
    scalex,          \* locals of generate
    scaley,
    y,               \* loop variable of the dispatch loop
    queue,           \* jobs the pool has accepted and no worker has started
    running,         \* jobs some worker is executing
    chan,            \* (y, line) messages sent on tx and not yet received
    result,          \* what rx.iter().take(img_height) has collected so far
    field,           \* the value generate returned
    executed,        \* row indices whose row unit a worker has started
    samples,         \* row index -> the samples c its row unit evaluated
    panicked,        \* row indices whose row unit panicked
    calls,           \* number of calls that have returned
    prev,            \* <<[field, threads]>> of the previous returned call
    started,         \* row indices in the order workers started their row units
    mpc,             \* main: position in the event loop ("off": generate is used alone)
    need_render,     \* main: locals of the event loop
    need_draw,
    events,          \* main: events the event pump holds and poll_iter has not yielded
    arrivals,        \* main: number of events that have arrived
    log,             \* main: the clicks, Window events, renders and draws, in order
    texture,         \* render_mandelbrot: the palette index of every pixel
    zoom_at,         \* the point of the last View::zoom
    zooms,           \* number of View::zoom calls
    pixel            \* mandelbrot-wasm: the inner loop of View::render on one pixel

(***************************************************************************)
(* Float arithmetic (type Float = f64), exact.                             *)
(***************************************************************************)
\* The element of a one-element set.
Only(S) == CHOOSE e \in S : TRUE

\* F applied to the values of its operands: each operand is evaluated once,
\* before F uses it.  The loops below bind each new loop variable the same way.
Strict1(F(_), a) == Only({F(p) : p \in {a}})

Strict2(F(_, _), a, b) == Only({F(p, q) : p \in {a}, q \in {b}})

Abs(n) == IF n < 0 THEN -n ELSE n

RECURSIVE GCD(_, _)
GCD(a, b) == IF b = 0 THEN a ELSE Only({GCD(b, r) : r \in {a % b}})

Rat(n, d) ==
    Strict2(LAMBDA p, q :
                Strict1(LAMBDA g : IF q < 0 THEN <<(-p) \div g, (-q) \div g>>
                                   ELSE <<p \div g, q \div g>>,
                        GCD(Abs(p), Abs(q))),
            n, d)

Inf == <<1, 0>>

FromInt(n) == <<n, 1>>

FAdd(a, b) ==
    Strict2(LAMBDA p, q :
                Strict1(LAMBDA l : Rat(p[1] * (l \div p[2]) + q[1] * (l \div q[2]), l),
                        (p[2] \div GCD(p[2], q[2])) * q[2]),
            a, b)

FSub(a, b) == Strict1(LAMBDA q : FAdd(a, <<-q[1], q[2]>>), b)

FMul(a, b) ==
    Strict2(LAMBDA p, q :
                IF p[1] = 0 \/ q[1] = 0 THEN <<0, 1>>
                ELSE Strict2(LAMBDA g1, g2 :
                                 <<(p[1] \div g1) * (q[1] \div g2),
                                   (p[2] \div g2) * (q[2] \div g1)>>,
                             GCD(Abs(p[1]), q[2]), GCD(Abs(q[1]), p[2])),
            a, b)

\* a / (n as Float) for a positive a: +inf when n is 0
FDiv(a, n) == IF n = 0 THEN Inf ELSE FMul(a, <<1, n>>)

FGe(a, b) == Strict2(LAMBDA p, q : p[1] * q[2] >= q[1] * p[2], a, b)

(***************************************************************************)
(* num_complex::Complex<f64>                                               *)
(***************************************************************************)
Complex(re, im) == [re |-> re, im |-> im]

CAdd(a, b) ==
    Strict2(LAMBDA p, q : Complex(FAdd(p.re, q.re), FAdd(p.im, q.im)), a, b)

CMul(a, b) ==
    Strict2(LAMBDA p, q :
                Complex(FSub(FMul(p.re, q.re), FMul(p.im, q.im)),
                        FAdd(FMul(p.re, q.im), FMul(p.im, q.re))),
            a, b)

norm_sqr(z) == Strict1(LAMBDA p : FAdd(FMul(p.re, p.re), FMul(p.im, p.im)), z)

\* z.norm() >= 2.0, with norm() = sqrt(re^2 + im^2)
NormGe2(z) == FGe(norm_sqr(z), FromInt(4))

(***************************************************************************)
(* View                                                                    *)
(***************************************************************************)
View_new ==
    [left |-> <<-5, 2>>, right |-> <<1, 1>>, top |-> <<3, 2>>, bottom |-> <<-3, 2>>]

\* The Views generate is exercised on: View::new(), a square straddling the
\* origin, and a View whose top-left corner is the sample 3 + 0i.
Views ==
    { View_new,
      [left |-> <<-2, 1>>, right |-> <<2, 1>>, top |-> <<2, 1>>, bottom |-> <<-2, 1>>],
      [left |-> <<3, 1>>, right |-> <<4, 1>>, top |-> <<0, 1>>, bottom |-> <<-1, 1>>] }

width(v) == FSub(v.right, v.left)

height(v) == FSub(v.top, v.bottom)

\* f64 division of two values; x / 0 is infinite
FQuot(a, b) == IF b[1] = 0 THEN Inf ELSE Rat(a[1] * b[2], a[2] * b[1])

aspect(v) == FQuot(height(v), width(v))

\* Faulty variant of zoom: the new extent is the old one
zoom_keeps_size(v, x, zy) ==
    Strict2(LAMBDA w, h :
        [left |-> FSub(x, w), right |-> FAdd(x, w), top |-> FAdd(zy, h), bottom |-> FSub(zy, h)],
        FDiv(width(v), 2), FDiv(height(v), 2))

\* View::zoom (and, with the same body, the wasm variant's View::_zoom)
zoom(v, x, zy) ==
    Strict2(LAMBDA w, h :
        [left |-> FSub(x, w), right |-> FAdd(x, w), top |-> FAdd(zy, h), bottom |-> FSub(zy, h)],
        FDiv(width(v), 4), FDiv(height(v), 4))

(***************************************************************************)
(* View::generate_line                                                     *)
(***************************************************************************)
\* Faulty variants of the allocation: filled with the budget, one entry too
\* long, filled with a sentinel
escape_vec_cap(w) == [x \in 1..w |-> max_iterations]

escape_vec_long(w) == [x \in 1..(w + 1) |-> 0]

escape_vec_sentinel(w) == [x \in 1..w |-> 65535]

\* vec![0; img_width]
escape_vec(w) == [x \in 1..w |-> 0]

\* Faulty variant of the inner loop: the update precedes the test
RECURSIVE iterate_test_after(_, _, _, _, _, _)
iterate_test_after(escape, x, c, z, i, max) ==
    IF i >= max THEN escape
    ELSE Only({IF NormGe2(zn) THEN [escape EXCEPT ![x + 1] = i]
               ELSE iterate_test_after(escape, x, c, zn, i + 1, max) :
               zn \in {CAdd(CMul(z, z), c)}})

\* One pass of the body of `for i in 0..max_iterations`, on the loop's state:
\* if z.norm() >= 2.0 { escape[x] = i; break; } z = z * z + c;
loop_body(st, x, c, i) ==
    IF st.broke THEN st
    ELSE IF NormGe2(st.z)
         THEN [z |-> st.z, escape |-> [st.escape EXCEPT ![x + 1] = i], broke |-> TRUE]
         ELSE Strict1(LAMBDA zn : [z |-> zn, escape |-> st.escape, broke |-> FALSE],
                      CAdd(CMul(st.z, st.z), c))

\* The passes lo..hi-1 in order, as the first half followed by the second
RECURSIVE loop_range(_, _, _, _, _)
loop_range(st, x, c, lo, hi) ==
    IF lo >= hi THEN st
    ELSE IF hi = lo + 1 THEN loop_body(st, x, c, lo)
    ELSE Strict1(LAMBDA s1 : IF s1.broke THEN s1
                              ELSE loop_range(s1, x, c, lo + (hi - lo) \div 2, hi),
                 loop_range(st, x, c, lo, lo + (hi - lo) \div 2))

\* for i in 0..max_iterations { if z.norm() >= 2.0 { escape[x] = i; break; } z = z * z + c; }
iterate(escape, x, c, z, i, max) ==
    loop_range([z |-> z, escape |-> escape, broke |-> FALSE], x, c, i, max).escape

\* for x in 0..img_width { ...; cx = cx + step; }, with the samples c it evaluated
RECURSIVE line_loop(_, _, _, _, _, _, _, _)
line_loop(escape, cs, x, w, max, cx, cy, step) ==
    IF x >= w THEN [escape |-> escape, samples |-> cs]
    ELSE Only({line_loop(e, Append(cs, c), nx, w, max, ncx, cy, step) :
               <<c, e, nx, ncx>> \in
                   {<<c, iterate(escape, x, c, c, 0, max), x + 1, FAdd(cx, step)>> :
                       c \in {Complex(cx, cy)}}})

line_run(w, max, cx, cy, step) == line_loop(escape_vec(w), <<>>, 0, w, max, cx, cy, step)

generate_line(w, max, cx, cy, step) == line_run(w, max, cx, cy, step).escape

(***************************************************************************)
(* result.sort() on Vec<(usize, Vec<u16>)>: tuples and vectors compare     *)
(* lexicographically.                                                      *)
(***************************************************************************)
RECURSIVE VecLess(_, _)
VecLess(a, b) ==
    IF b = <<>> THEN FALSE
    ELSE IF a = <<>> THEN TRUE
    ELSE IF Head(a) # Head(b) THEN Head(a) < Head(b)
    ELSE VecLess(Tail(a), Tail(b))

\* Faulty variant of the tuple order: the line decides first
TupleLessByLine(a, b) == VecLess(a[2], b[2]) \/ (a[2] = b[2] /\ a[1] < b[1])

TupleLess(a, b) == a[1] < b[1] \/ (a[1] = b[1] /\ VecLess(a[2], b[2]))

RECURSIVE Insert(_, _)
Insert(sorted, e) ==
    IF sorted = <<>> THEN <<e>>
    ELSE IF TupleLess(e, Head(sorted)) THEN <<e>> \o sorted
    ELSE <<Head(sorted)>> \o Insert(Tail(sorted), e)

RECURSIVE InsertAll(_, _)
InsertAll(sorted, rest) ==
    IF rest = <<>> THEN sorted ELSE InsertAll(Insert(sorted, Head(rest)), Tail(rest))

\* Faulty variant of the sort: arrival order is kept
sort_none(v) == v

sort(v) == InsertAll(<<>>, v)

\* result.into_iter().map(|(_, escape)| escape).collect()
strip_tags(v) == [k \in 1..Len(v) |-> v[k][2]]

vars ==
    <<view, img_width, img_height, max_iterations, pc, threads, scalex, scaley, y,
      queue, running, chan, result, field, executed, samples, panicked, calls, prev,
      started, mpc, need_render, need_draw, events, arrivals, log, texture,
      zoom_at, zooms, pixel>>

\* The state of main's event loop and of render_mandelbrot
mainvars == <<mpc, need_render, need_draw, events, arrivals, log, texture>>

\* The state of View::zoom and of the wasm variant's inner loop
zoomvars == <<zoom_at, zooms>>

\* What a step of generate leaves alone
others == <<mainvars, zoomvars, pixel>>

inputs == <<view, img_width, img_height, max_iterations>>

\* Worker counts the pool is built with: THREADS in the source.
PoolSizes == {1, 2, THREADS}

\* generate is used alone: no event loop
MainOff ==
    /\ mpc = "off"
    /\ need_render = FALSE
    /\ need_draw = FALSE
    /\ events = <<>>
    /\ arrivals = 0
    /\ log = <<>>
    /\ texture = <<>>

ZoomOff == zoom_at = <<>> /\ zooms = 0

PixelOff == pixel = <<>>

Init ==
    /\ view \in Views
    /\ img_width \in (0..MaxWidth) \cup {HugeWidth}
    /\ img_height \in 0..MaxHeight
    /\ max_iterations \in 0..MaxIter
    /\ pc = "idle"
    /\ threads = THREADS
    /\ scalex = Inf
    /\ scaley = Inf
    /\ y = 0
    /\ queue = <<>>
    /\ running = {}
    /\ chan = <<>>
    /\ result = <<>>
    /\ field = <<>>
    /\ executed = {}
    /\ samples = <<>>
    /\ panicked = {}
    /\ calls = 0
    /\ prev = <<>>
    /\ started = <<>>
    /\ MainOff
    /\ ZoomOff
    /\ PixelOff

(***************************************************************************)
(* View::generate, the calling thread                                      *)
(***************************************************************************)
\* Entry: scalex, scaley, ThreadPool::new, mpsc::channel
enter_generate(n) ==
    /\ pc' = "generate"
    /\ threads' = n
    /\ scalex' = FDiv(width(view), img_width)
    /\ scaley' = FDiv(height(view), img_height)
    /\ y' = 0
    /\ queue' = <<>>
    /\ running' = {}
    /\ chan' = <<>>
    /\ result' = <<>>
    /\ field' = <<>>
    /\ executed' = {}
    /\ samples' = <<>>
    /\ panicked' = {}
    /\ started' = <<>>
    /\ prev' = IF pc = "returned" THEN <<[field |-> field, threads |-> threads]>> ELSE <<>>
    /\ UNCHANGED <<inputs, calls>>

\* A call of generate on its own, with a pool of n workers
Call(n) ==
    /\ mpc = "off"
    /\ pc \in {"idle", "returned"}
    /\ calls < MaxCalls
    /\ enter_generate(n)
    /\ UNCHANGED others

\* Faulty variant of the captures: rows counted from the bottom
job_bottom_up(row) ==
    [y |-> row, cx |-> view.left, cy |-> FAdd(view.bottom, FMul(FromInt(row), scaley))]

\* The closure's captures for row y: cx = self.left, cy = self.top - y * scaley
job(row) == [y |-> row, cx |-> view.left, cy |-> FSub(view.top, FMul(FromInt(row), scaley))]

\* One iteration of for y in 0..img_height: pool.execute(closure)
Dispatch ==
    /\ pc = "generate"
    /\ y < img_height
    /\ queue' = Append(queue, job(y))
    /\ y' = y + 1
    /\ UNCHANGED <<inputs, pc, threads, scalex, scaley, running, chan, result, field,
                   executed, samples, panicked, calls, prev, started, others>>

\* Faulty variants of the count: one result too few, one too many
take_count_long == img_height + 1

take_count_short == img_height - 1

\* The number of results rx.iter().take(img_height) waits for
take_count == img_height

\* One item of rx.iter().take(img_height): blocks until a message is there
Recv ==
    /\ pc = "generate"
    /\ y >= img_height
    /\ Len(result) < take_count
    /\ chan # <<>>
    /\ result' = Append(result, Head(chan))
    /\ chan' = Tail(chan)
    /\ UNCHANGED <<inputs, pc, threads, scalex, scaley, y, queue, running, field,
                   executed, samples, panicked, calls, prev, started, others>>

\* The field built from the collected results: sort, then drop the tags
assemble(v) == strip_tags(sort(v))

\* collect() is complete: result.sort(), the map, and the return
Return ==
    /\ pc = "generate"
    /\ y >= img_height
    /\ Len(result) >= take_count
    /\ field' = assemble(result)
    /\ pc' = "returned"
    /\ calls' = calls + 1
    /\ UNCHANGED <<inputs, threads, scalex, scaley, y, queue, running, chan, result,
                   executed, samples, panicked, prev, started, others>>

(***************************************************************************)
(* The pool's workers                                                      *)
(***************************************************************************)
\* Faulty variant of the pool: a thread for every job
idle_worker_always == TRUE

\* Some worker of the pool is idle
idle_worker == Cardinality(running) < threads

\* An idle worker takes the oldest queued job
Start ==
    /\ pc = "generate"
    /\ queue # <<>>
    /\ idle_worker
    /\ running' = running \cup {Head(queue)}
    /\ queue' = Tail(queue)
    /\ executed' = executed \cup {Head(queue).y}
    /\ started' = Append(started, Head(queue).y)
    /\ UNCHANGED <<inputs, pc, threads, scalex, scaley, y, chan, result, field,
                   samples, panicked, calls, prev, others>>

\* The message a row unit sends: tx.send((y, line))
message(j) == <<j.y, generate_line(img_width, max_iterations, j.cx, j.cy, scalex)>>

\* The closure runs to its end: generate_line, then the send (never blocks;
\* rx lives until generate returns, so the unwrap never fails)
Finish(j) ==
    /\ pc = "generate"
    /\ j \in running
    /\ ~capacity_overflow(img_width)
    /\ chan' = Append(chan, message(j))
    /\ running' = running \ {j}
    /\ samples' = [k \in (DOMAIN samples) \cup {j.y} |->
                     IF k = j.y
                     THEN line_run(img_width, max_iterations, j.cx, j.cy, scalex).samples
                     ELSE samples[k]]
    /\ UNCHANGED <<inputs, pc, threads, scalex, scaley, y, queue, result, field,
                   executed, panicked, calls, prev, started, others>>

\* The closure panics in generate_line's vec![0; img_width]: it unwinds and
\* drops its tx clone, nothing is sent, and the pool replaces the worker thread.
Panic(j) ==
    /\ pc = "generate"
    /\ j \in running
    /\ capacity_overflow(img_width)
    /\ running' = running \ {j}
    /\ panicked' = panicked \cup {j.y}
    /\ UNCHANGED <<inputs, pc, threads, scalex, scaley, y, queue, chan, result, field,
                   executed, samples, calls, prev, started, others>>

Next ==
    \/ \E n \in PoolSizes : Call(n)
    \/ Dispatch
    \/ Recv
    \/ Return
    \/ Start
    \/ \E j \in running : Finish(j)
    \/ \E j \in running : Panic(j)

Spec == Init /\ [][Next]_vars

\* generate as the program calls it, with ThreadPool::new(THREADS), over
\* rasters taller than the pool is wide
PoolInit ==
    /\ view = View_new
    /\ img_width \in {1, HugeWidth}
    /\ img_height \in 0..MaxPoolHeight
    /\ max_iterations = 1
    /\ pc = "idle"
    /\ threads = THREADS
    /\ scalex = Inf
    /\ scaley = Inf
    /\ y = 0
    /\ queue = <<>>
    /\ running = {}
    /\ chan = <<>>
    /\ result = <<>>
    /\ field = <<>>
    /\ executed = {}
    /\ samples = <<>>
    /\ panicked = {}
    /\ calls = 0
    /\ prev = <<>>
    /\ started = <<>>
    /\ MainOff
    /\ ZoomOff
    /\ PixelOff

PoolNext ==
    \/ Call(THREADS)
    \/ Dispatch
    \/ Recv
    \/ Return
    \/ Start
    \/ \E j \in running : Finish(j)
    \/ \E j \in running : Panic(j)

PoolSpec == PoolInit /\ [][PoolNext]_vars

\* No generate call: the state the other programs leave generate's variables in
PoolIdle ==
    /\ pc = "idle"
    /\ threads = THREADS
    /\ scalex = Inf
    /\ scaley = Inf
    /\ y = 0
    /\ queue = <<>>
    /\ running = {}
    /\ chan = <<>>
    /\ result = <<>>
    /\ field = <<>>
    /\ executed = {}
    /\ samples = <<>>
    /\ panicked = {}
    /\ calls = 0
    /\ prev = <<>>
    /\ started = <<>>

GenIdle ==
    /\ img_width = 0
    /\ img_height = 0
    /\ max_iterations = 0
    /\ PoolIdle

(***************************************************************************)
(* mandelbrot-wasm, View::render: the inner loop on one pixel.  The        *)
(* rasters are render(7, 3) and render(7, 6) of View::new(), whose samples *)
(* are multiples of 1/2; the loop's bound is MAX_ITERATIONS, cut off at    *)
(* MaxWasmIter.                                                            *)
(***************************************************************************)
WasmRasters == {<<7, 3>>, <<7, 6>>}

\* cx after px additions of scalex, cy after py subtractions of scaley
wasm_sample(w, h, px, py) ==
    Complex(FAdd(View_new.left, FMul(FromInt(px), FDiv(width(View_new), w))),
            FSub(View_new.top, FMul(FromInt(py), FDiv(height(View_new), h))))

\* The wasm variant's escape test, on zz = z * z
wasm_escape_test(zz) == FGe(FAdd(zz.re, zz.im), FromInt(4))

\* let c = Complex::new(cx, cy); let mut z = c.clone(); let mut zz = z * z;
wasm_pixel(w, h, px, py) ==
    Strict1(LAMBDA c :
        [w |-> w, h |-> h, px |-> px, py |-> py, c |-> c, z |-> c, zz |-> CMul(c, c),
         i |-> 0, tested |-> FALSE, fired |-> FALSE, done |-> FALSE, value |-> 0],
        wasm_sample(w, h, px, py))

WasmInit ==
    /\ view = View_new
    /\ GenIdle
    /\ MainOff
    /\ ZoomOff
    /\ \E r \in WasmRasters : \E px \in 0..(r[1] - 1) : \E py \in 0..(r[2] - 1) :
          pixel = wasm_pixel(r[1], r[2], px, py)

\* One pass of `for i in 0..MAX_ITERATIONS`: z = zz + c; zz = z * z; the test
WasmStep ==
    /\ pixel # <<>>
    /\ ~pixel.done
    /\ pixel.i < MAX_ITERATIONS
    /\ pixel.i < MaxWasmIter
    /\ pixel' = Strict1(LAMBDA z : Strict1(LAMBDA zz : Strict1(LAMBDA f :
                    [pixel EXCEPT !.z = z, !.zz = zz, !.tested = TRUE, !.fired = f,
                                  !.value = IF f THEN pixel.i ELSE 0,
                                  !.done = f \/ pixel.i + 1 = MAX_ITERATIONS,
                                  !.i = IF f THEN pixel.i ELSE pixel.i + 1],
                    wasm_escape_test(zz)), CMul(z, z)), CAdd(pixel.zz, pixel.c))
    /\ UNCHANGED <<inputs, pc, threads, scalex, scaley, y, queue, running, chan, result,
                   field, executed, samples, panicked, calls, prev, started,
                   mainvars, zoomvars>>

WasmSpec == WasmInit /\ [][WasmStep]_vars

(***************************************************************************)
(* View::zoom on its own: any sequence of at most MaxZooms calls on        *)
(* View::new(), with the points drawn from a grid of rationals inside and  *)
(* outside the View.                                                       *)
(***************************************************************************)
ZoomXs == {<<-2, 1>>, <<-3, 4>>, <<0, 1>>, <<1, 3>>, <<1, 2>>, <<5, 1>>}

ZoomYs == {<<-3, 2>>, <<-1, 2>>, <<0, 1>>, <<1, 4>>, <<1, 1>>, <<7, 3>>}

ZoomInit ==
    /\ view = View_new
    /\ GenIdle
    /\ MainOff
    /\ ZoomOff
    /\ PixelOff

Zoom(x, zy) ==
    /\ zooms < MaxZooms
    /\ view' = zoom(view, x, zy)
    /\ zoom_at' = <<x, zy>>
    /\ zooms' = zooms + 1
    /\ UNCHANGED <<img_width, img_height, max_iterations, pc, threads, scalex, scaley,
                   y, queue, running, chan, result, field, executed, samples, panicked,
                   calls, prev, started, mainvars, pixel>>

ZoomNext == \E x \in ZoomXs : \E zy \in ZoomYs : Zoom(x, zy)

ZoomSpec == ZoomInit /\ [][ZoomNext]_vars

(***************************************************************************)
(* render_mandelbrot and the Palette                                       *)
(***************************************************************************)
\* usize::MAX, what an infinite f64 becomes under `as usize`
USIZE_MAX == HugeWidth

\* `as usize` and `as u32` on an f64: truncation, saturating
to_usize(f) ==
    IF f = Inf THEN USIZE_MAX ELSE IF f[1] < 0 THEN 0 ELSE f[1] \div f[2]

\* Faulty variant of the lookup: the count scaled by one colour too many
palette_index_wide(i, max) ==
    to_usize(FMul(FromInt(colors_len + 1), FQuot(FromInt(i), FromInt(max))))

\* Index<Float> for Palette, on i as Float / max_iterations as Float:
\* (self.colors.len() as Float * magnitude) as usize; 0/0 is NaN, and NaN as usize is 0
palette_index(i, max) ==
    IF i = 0 /\ max = 0
    THEN 0
    ELSE to_usize(FMul(FromInt(colors_len), FQuot(FromInt(i), FromInt(max))))

\* The palette index of every entry of the field f
convert(f, max) ==
    [r \in DOMAIN f |-> [col \in DOMAIN f[r] |-> palette_index(f[r][col], max)]]

\* Every lookup of the conversion is inside self.colors
in_palette(t) == \A r \in DOMAIN t : \A col \in DOMAIN t[r] : t[r][col] < colors_len

(***************************************************************************)
(* main: the window, the event loop                                        *)
(***************************************************************************)
\* let win_height = (win_width as Float * view.aspect()) as u32
win_height(w) == to_usize(FMul(FromInt(w), aspect(View_new)))

\* The events the loop tells apart; TextureUpdatedEvent falls to the `_` arm
Quit == [type |-> "Quit"]

Window == [type |-> "Window"]

TextureUpdatedEvent == [type |-> "User"]

MouseButtonDown(ex, ey) == [type |-> "MouseButtonDown", x |-> ex, y |-> ey]

\* What the user and the window system can send: clicks are inside the window
UserEvents ==
    {Quit, Window} \cup {MouseButtonDown(ex, ey) : ex \in 0..(img_width - 1),
                                                   ey \in 0..(img_height - 1)}

logged(what) == Append(log, [what |-> what, view |-> view])

MainInit ==
    /\ view = View_new
    /\ img_width = WinWidth
    /\ img_height = win_height(WinWidth)
    /\ max_iterations = 1
    /\ PoolIdle
    /\ mpc = "top"
    /\ need_render = TRUE
    /\ need_draw = TRUE
    /\ events = <<>>
    /\ arrivals = 0
    /\ log = <<>>
    /\ texture = <<>>
    /\ ZoomOff
    /\ PixelOff

\* if need_render { render_mandelbrot(...): view.generate(...) is entered
MainRender ==
    /\ mpc = "top"
    /\ need_render
    /\ enter_generate(THREADS)
    /\ mpc' = "rendering"
    /\ UNCHANGED <<need_render, need_draw, events, arrivals, log, texture, zoomvars, pixel>>

MainSkipRender ==
    /\ mpc = "top"
    /\ ~need_render
    /\ mpc' = "draw"
    /\ UNCHANGED <<inputs, pc, threads, scalex, scaley, y, queue, running, chan, result,
                   field, executed, samples, panicked, calls, prev, started,
                   need_render, need_draw, events, arrivals, log, texture, zoomvars, pixel>>

\* Faulty variant of the flags: need_render is not reset
render_done_stuck == [need_draw |-> TRUE, need_render |-> TRUE]

\* need_draw = true; need_render = false;
render_done == [need_draw |-> TRUE, need_render |-> FALSE]

\* generate has returned: the conversion (a lookup outside the palette
\* panics), texture.update, push_custom_event, and the two flags
MainRendered ==
    /\ mpc = "rendering"
    /\ pc = "returned"
    /\ IF in_palette(convert(field, max_iterations))
       THEN /\ texture' = convert(field, max_iterations)
            /\ events' = Append(events, TextureUpdatedEvent)
            /\ need_draw' = render_done.need_draw
            /\ need_render' = render_done.need_render
            /\ log' = logged("render")
            /\ mpc' = "draw"
       ELSE /\ mpc' = "panicked"
            /\ UNCHANGED <<texture, events, need_draw, need_render, log>>
    /\ UNCHANGED <<inputs, pc, threads, scalex, scaley, y, queue, running, chan, result,
                   field, executed, samples, panicked, calls, prev, started,
                   arrivals, zoomvars, pixel>>

\* if need_draw { canvas.clear(); canvas.copy(&texture); canvas.present(); ... }
MainDraw ==
    /\ mpc = "draw"
    /\ need_draw
    /\ need_draw' = FALSE
    /\ log' = logged("draw")
    /\ mpc' = "poll"
    /\ UNCHANGED <<inputs, pc, threads, scalex, scaley, y, queue, running, chan, result,
                   field, executed, samples, panicked, calls, prev, started,
                   need_render, events, arrivals, texture, zoomvars, pixel>>

MainSkipDraw ==
    /\ mpc = "draw"
    /\ ~need_draw
    /\ mpc' = "poll"
    /\ UNCHANGED <<inputs, pc, threads, scalex, scaley, y, queue, running, chan, result,
                   field, executed, samples, panicked, calls, prev, started,
                   need_render, need_draw, events, arrivals, log, texture, zoomvars, pixel>>

\* Faulty variant of the loop: events are also handled while generate runs
polling_while_rendering == mpc \in {"poll", "rendering"}

\* The loop is in `for event in events.poll_iter()`
polling == mpc = "poll"

\* Event::Quit or Escape: return
HandleQuit ==
    /\ polling
    /\ events # <<>>
    /\ Head(events).type = "Quit"
    /\ events' = Tail(events)
    /\ log' = logged("quit")
    /\ mpc' = "exit"
    /\ UNCHANGED <<inputs, pc, threads, scalex, scaley, y, queue, running, chan, result,
                   field, executed, samples, panicked, calls, prev, started,
                   need_render, need_draw, arrivals, texture, zoomvars, pixel>>

\* The point of the View under the window pixel (ex, ey)
click_point(ex, ey) ==
    <<FAdd(view.left, FMul(FromInt(ex), FDiv(width(view), img_width))),
      FSub(view.top, FMul(FromInt(ey), FDiv(height(view), img_height)))>>

\* Event::MouseButtonDown {x, y, ..}: view.zoom(cx, cy); need_render = true
HandleMouseButtonDown ==
    /\ polling
    /\ events # <<>>
    /\ Head(events).type = "MouseButtonDown"
    /\ events' = Tail(events)
    /\ zoom_at' = click_point(Head(events).x, Head(events).y)
    /\ zooms' = zooms + 1
    /\ view' = zoom(view, zoom_at'[1], zoom_at'[2])
    /\ need_render' = TRUE
    /\ log' = Append(log, [what |-> "click", view |-> view'])
    /\ UNCHANGED <<img_width, img_height, max_iterations, pc, threads, scalex, scaley,
                   y, queue, running, chan, result, field, executed, samples, panicked,
                   calls, prev, started, mpc, need_draw, arrivals, texture, pixel>>

\* Event::Window {..}: need_draw = true
HandleWindow ==
    /\ polling
    /\ events # <<>>
    /\ Head(events).type = "Window"
    /\ events' = Tail(events)
    /\ need_draw' = TRUE
    /\ log' = logged("window")
    /\ UNCHANGED <<inputs, pc, threads, scalex, scaley, y, queue, running, chan, result,
                   field, executed, samples, panicked, calls, prev, started,
                   mpc, need_render, arrivals, texture, zoomvars, pixel>>

\* _ => {}
HandleOther ==
    /\ polling
    /\ events # <<>>
    /\ Head(events).type = "User"
    /\ events' = Tail(events)
    /\ UNCHANGED <<inputs, pc, threads, scalex, scaley, y, queue, running, chan, result,
                   field, executed, samples, panicked, calls, prev, started,
                   mpc, need_render, need_draw, arrivals, log, texture, zoomvars, pixel>>

\* poll_iter yields None: the next iteration of `loop`
MainPollEnd ==
    /\ polling
    /\ events = <<>>
    /\ mpc' = "top"
    /\ UNCHANGED <<inputs, pc, threads, scalex, scaley, y, queue, running, chan, result,
                   field, executed, samples, panicked, calls, prev, started,
                   need_render, need_draw, events, arrivals, log, texture, zoomvars, pixel>>

\* The user or the window system sends an event, at any time
Arrive(e) ==
    /\ mpc \in {"top", "rendering", "draw", "poll"}
    /\ arrivals < MaxEvents
    /\ events' = Append(events, e)
    /\ arrivals' = arrivals + 1
    /\ UNCHANGED <<inputs, pc, threads, scalex, scaley, y, queue, running, chan, result,
                   field, executed, samples, panicked, calls, prev, started,
                   mpc, need_render, need_draw, log, texture, zoomvars, pixel>>

MainNext ==
    \/ MainRender
    \/ MainSkipRender
    \/ MainRendered
    \/ MainDraw
    \/ MainSkipDraw
    \/ HandleQuit
    \/ HandleMouseButtonDown
    \/ HandleWindow
    \/ HandleOther
    \/ MainPollEnd
    \/ \E e \in UserEvents : Arrive(e)
    \/ Dispatch
    \/ Recv
    \/ Return
    \/ Start
    \/ \E j \in running : Finish(j)

MainSpec == MainInit /\ [][MainNext]_vars

(***************************************************************************)
(* render_mandelbrot on its own, with main's max_iterations, on Views and  *)
(* rasters whose samples are integers.                                     *)
(***************************************************************************)
RenderViews ==
    { [left |-> <<-2, 1>>, right |-> <<2, 1>>, top |-> <<2, 1>>, bottom |-> <<-2, 1>>],
      [left |-> <<-2, 1>>, right |-> <<2, 1>>, top |-> <<1, 1>>, bottom |-> <<-1, 1>>] }

RenderInit ==
    /\ view \in RenderViews
    /\ img_width \in {1, 2, 4}
    /\ img_height \in {1, 2}
    /\ max_iterations = main_max_iterations
    /\ PoolIdle
    /\ mpc = "top"
    /\ need_render = TRUE
    /\ need_draw = TRUE
    /\ events = <<>>
    /\ arrivals = 0
    /\ log = <<>>
    /\ texture = <<>>
    /\ ZoomOff
    /\ PixelOff

RenderNext ==
    \/ MainRender
    \/ MainRendered
    \/ Dispatch
    \/ Recv
    \/ Return
    \/ Start
    \/ \E j \in running : Finish(j)

RenderSpec == RenderInit /\ [][RenderNext]_vars

\* The calling thread and the pool's worker threads are OS threads, each
\* scheduled fairly: a step that stays possible is eventually taken.
LiveSpec ==
    /\ Spec
    /\ WF_vars(Dispatch)
    /\ WF_vars(Recv)
    /\ WF_vars(Return)
    /\ WF_vars(Start)
    /\ WF_vars(\E j \in running : Finish(j))

(***************************************************************************)
(* Definitions the properties are stated with                              *)
(***************************************************************************)
\* The sample of pixel (px, py) by the interpolation formula:
\* re = left + px * (width / img_width), im = top - py * (height / img_height)
sample(px, py) ==
    Complex(FAdd(view.left, FMul(FromInt(px), FDiv(width(view), img_width))),
            FSub(view.top, FMul(FromInt(py), FDiv(height(view), img_height))))

\* The iterates z_0 = c, z_{n+1} = z_n^2 + c
RECURSIVE Orbit(_, _)
Orbit(c, n) == IF n = 0 THEN c ELSE LET z == Orbit(c, n - 1) IN CAdd(CMul(z, z), c)

\* Some iterate z_i with i < n has |z_i| >= 2
EscapesWithin(c, n) == \E i \in 0..(n - 1) : NormGe2(Orbit(c, i))

Rows == 0..(img_height - 1)

Cols == 0..(img_width - 1)

Returned == pc = "returned"

\* The results arrived in an order other than ascending row index
ArrivedOutOfOrder == \E k \in 1..(Len(result) - 1) : result[k][1] > result[k + 1][1]

(***************************************************************************)
(* C1: whatever the completion and arrival order, the returned field has   *)
(* at position k the line computed for raster row k, for every row k.      *)
(***************************************************************************)
C1_RowOrder ==
    Returned =>
        /\ Len(field) = img_height
        /\ \A k \in Rows : field[k + 1] = message(job(k))[2]

\* A call returned whose results arrived in descending row order with
\* different lines
C1_Witness ==
    /\ Returned
    /\ Len(result) >= 2
    /\ result[1][1] > result[2][1]
    /\ result[1][2] # result[2][2]

(***************************************************************************)
(* C2 as stated: a sample that does not escape within max_iterations       *)
(* iterates is stored as max_iterations.                                   *)
(***************************************************************************)
C2_StoresCap ==
    Returned =>
        \A py \in Rows : \A px \in Cols :
            ~EscapesWithin(sample(px, py), max_iterations)
                => field[py + 1][px + 1] = max_iterations

(***************************************************************************)
(* C2 amended: a sample that does not escape within max_iterations         *)
(* iterates is stored as 0, the value the vector was allocated with.       *)
(***************************************************************************)
C2_StoresZero ==
    Returned =>
        \A py \in Rows : \A px \in Cols :
            ~EscapesWithin(sample(px, py), max_iterations) => field[py + 1][px + 1] = 0

\* A returned field, computed with a budget of at least 1, that holds the sample c = 0
C2_Witness ==
    /\ Returned
    /\ max_iterations >= 1
    /\ \E py \in Rows : \E px \in Cols :
          /\ sample(px, py) = Complex(<<0, 1>>, <<0, 1>>)
          /\ ~EscapesWithin(sample(px, py), max_iterations)

(***************************************************************************)
(* C3: for img_width, img_height >= 1 the returned field has img_height    *)
(* rows of img_width entries, each entry in 0..max_iterations.             *)
(***************************************************************************)
C3_Shape ==
    (Returned /\ img_width >= 1 /\ img_height >= 1) =>
        /\ Len(field) = img_height
        /\ \A k \in 1..Len(field) :
              /\ Len(field[k]) = img_width
              /\ \A e \in 1..Len(field[k]) :
                    0 <= field[k][e] /\ field[k][e] <= max_iterations

\* A returned field of the largest raster that holds a non-zero count
C3_Witness ==
    /\ Returned
    /\ img_width = MaxWidth
    /\ img_height = MaxHeight
    /\ \E k \in 1..Len(field) : \E e \in 1..Len(field[k]) : field[k][e] > 0

(***************************************************************************)
(* C4: a call returns the field the previous call with the same inputs     *)
(* returned, whatever the two calls' worker counts and interleavings.      *)
(***************************************************************************)
C4_Deterministic == (Returned /\ prev # <<>>) => field = prev[1].field

\* A second call returned, run with another worker count than the first,
\* whose results arrived out of order
C4_Witness ==
    /\ Returned
    /\ prev # <<>>
    /\ prev[1].threads # threads
    /\ img_width >= 1
    /\ ArrivedOutOfOrder

(***************************************************************************)
(* C5: when generate returns, exactly img_height results were received,    *)
(* every row index occurs among them exactly once, and every result        *)
(* carries the tag of the row it was computed for.                         *)
(***************************************************************************)
C5_Complete ==
    Returned =>
        /\ Len(result) = img_height
        /\ \A row \in Rows : Cardinality({k \in 1..Len(result) : result[k][1] = row}) = 1
        /\ \A k \in 1..Len(result) :
              /\ result[k][1] \in Rows
              /\ result[k] = message(job(result[k][1]))

\* A call over the tallest raster returned
C5_Witness == Returned /\ img_height = MaxHeight /\ img_width >= 1 /\ ArrivedOutOfOrder

(***************************************************************************)
(* C6 as stated: a call with img_width = 0 or img_height = 0 dispatches    *)
(* and executes no row unit and returns no field.                          *)
(***************************************************************************)
C6_RejectsInvalid ==
    (img_width = 0 \/ img_height = 0) =>
        /\ queue = <<>>
        /\ executed = {}
        /\ ~Returned

(***************************************************************************)
(* C7 as stated: once a row unit has panicked the call does not wait       *)
(* forever: it is never in generate with nothing left that can happen.     *)
(***************************************************************************)
C7_FaultSurfaces == (panicked # {} /\ pc = "generate") => ENABLED Next

(***************************************************************************)
(* C8: a sample that escapes within the budget is stored as the smallest   *)
(* 0-indexed i < max_iterations with |z_i| >= 2 (so 3 + 0i is stored as 0).*)
(***************************************************************************)
C8_FirstEscape ==
    Returned =>
        \A py \in Rows : \A px \in Cols :
            LET c == sample(px, py)
                e == field[py + 1][px + 1]
            IN  EscapesWithin(c, max_iterations) =>
                    /\ 0 <= e /\ e < max_iterations
                    /\ NormGe2(Orbit(c, e))
                    /\ \A j \in 0..(e - 1) : ~NormGe2(Orbit(c, j))
                    /\ (c = Complex(<<3, 1>>, <<0, 1>>) => e = 0)

\* A returned field holding a sample that escapes at a later iterate than z_0
C8_Witness ==
    /\ Returned
    /\ \E py \in Rows : \E px \in Cols :
          /\ EscapesWithin(sample(px, py), max_iterations)
          /\ field[py + 1][px + 1] >= 1

(***************************************************************************)
(* C9: with max_iterations = 0 and img_width, img_height >= 1 every entry  *)
(* of the returned field is 0.                                             *)
(***************************************************************************)
C9_ZeroBudget ==
    (Returned /\ max_iterations = 0 /\ img_width >= 1 /\ img_height >= 1) =>
        /\ Len(field) = img_height
        /\ \A k \in 1..Len(field) :
              /\ Len(field[k]) = img_width
              /\ \A e \in 1..Len(field[k]) : field[k][e] = 0

\* A call with a zero budget returned a full-size field
C9_Witness ==
    Returned /\ max_iterations = 0 /\ img_width = MaxWidth /\ img_height = MaxHeight

(***************************************************************************)
(* C10: the sample a row unit evaluates for pixel (x, y) is                *)
(* left + x * (width / img_width), top - y * (height / img_height);        *)
(* pixel (0, 0) is sampled at (left, top).                                 *)
(***************************************************************************)
C10_Samples ==
    \A row \in DOMAIN samples :
        /\ Len(samples[row]) = img_width
        /\ \A px \in Cols : samples[row][px + 1] = sample(px, row)
        /\ (row = 0 /\ img_width >= 1) => samples[row][1] = Complex(view.left, view.top)

\* A row unit below the first row has evaluated a pixel right of the first column
C10_Witness == \E row \in DOMAIN samples : row >= 1 /\ Len(samples[row]) >= 2

(***************************************************************************)
(* C11: under fair scheduling and without a worker fault a call with       *)
(* img_height >= 1 eventually returns, with every row unit started and     *)
(* completed; a running row unit can always complete (its send never       *)
(* blocks), and the calling thread is blocked only in the receive.         *)
(***************************************************************************)
NoFault == ~capacity_overflow(img_width)

\* The calling thread cannot take a step of generate
CallerBlocked == pc = "generate" /\ ~ENABLED (Dispatch \/ Recv \/ Return)

\* The calling thread waits in rx.iter().take(img_height) for a message
InReceive == y >= img_height /\ Len(result) < img_height /\ chan = <<>>

C11_Progress ==
    /\ [](NoFault => \A j \in running : ENABLED Finish(j))
    /\ [](CallerBlocked => InReceive)
    /\ (pc = "generate" /\ img_height >= 1 /\ NoFault)
          ~> (Returned /\ executed = Rows /\ DOMAIN samples = Rows)

\* A call over the tallest raster returned from a pool of one worker
C11_Witness ==
    /\ Returned
    /\ img_height = MaxHeight
    /\ img_width >= 1
    /\ NoFault
    /\ threads = 1
    /\ executed = Rows

(***************************************************************************)
(* C12: at most THREADS row units execute at the same time, also when      *)
(* img_height > THREADS; the others wait in the queue, and every row unit  *)
(* of a returned call was started exactly once.                            *)
(***************************************************************************)
Starts(row) == Cardinality({k \in 1..Len(started) : started[k] = row})

C12_PoolBound ==
    /\ Cardinality(running) <= THREADS
    /\ \A row \in Rows : Starts(row) <= 1
    /\ \A k \in 1..Len(queue) : Starts(queue[k].y) = 0
    /\ Returned => \A row \in Rows : Starts(row) = 1

\* Every worker is busy and a row unit waits in the queue
C12_Witness ==
    /\ img_height > THREADS
    /\ Cardinality(running) = THREADS
    /\ queue # <<>>

(***************************************************************************)
(* C13: on every iterate z the wasm variant tests, its test                *)
(* zz.re + zz.im >= 4.0 (zz = z * z) fires exactly when                    *)
(* re(z)^2 + im(z)^2 >= 4, which is when the desktop variant's             *)
(* z.norm() >= 2.0 fires.                                                  *)
(***************************************************************************)
C13_SameTest ==
    (pixel # <<>> /\ pixel.tested) => (pixel.fired <=> NormGe2(pixel.z))

(***************************************************************************)
(* C15: every View reached from View::new() by zoom calls has              *)
(* right > left and top > bottom; each zoom gives a View centred on the    *)
(* zoom point whose width and height are half the previous ones, so        *)
(* height/width stays the same.                                            *)
(***************************************************************************)
FGt(a, b) == ~FGe(b, a)

centre(v) == <<FDiv(FAdd(v.left, v.right), 2), FDiv(FAdd(v.top, v.bottom), 2)>>

C15_Zoom ==
    /\ [](FGt(view.right, view.left) /\ FGt(view.top, view.bottom))
    /\ [][zooms' = zooms + 1 =>
            /\ centre(view') = zoom_at'
            /\ width(view') = FDiv(width(view), 2)
            /\ height(view') = FDiv(height(view), 2)
            /\ aspect(view') = aspect(view)]_vars

\* Two zooms, the last one on a point outside View::new()
C15_Witness ==
    /\ zooms >= 2
    /\ zoom_at = <<(<<5, 1>>), (<<7, 3>>)>>
    /\ width(view) = <<7, 8>>

(***************************************************************************)
(* C14: in the event loop, while a generate call is in flight the loop is  *)
(* inside render_mandelbrot: no second call can start, the View and the    *)
(* call's other values do not change, and every job and every message of   *)
(* the call is the one computed from the current left, top, scalex,        *)
(* scaley and max_iterations.                                              *)
(***************************************************************************)
InFlight == pc = "generate"

C14_Serial ==
    /\ [](InFlight =>
            /\ mpc = "rendering"
            /\ ~ENABLED MainRender
            /\ scalex = FDiv(width(view), img_width)
            /\ scaley = FDiv(height(view), img_height)
            /\ \A k \in 1..Len(queue) : queue[k] = job(queue[k].y)
            /\ \A j \in running : j = job(j.y)
            /\ \A k \in 1..Len(chan) : chan[k] = message(job(chan[k][1]))
            /\ \A k \in 1..Len(result) : result[k] = message(job(result[k][1])))
    /\ [][InFlight =>
            /\ view' = view
            /\ UNCHANGED <<img_width, img_height, max_iterations, scalex, scaley,
                           threads, zooms>>]_vars

\* A click waits in the event pump while the zoomed View is generated
C14_Witness ==
    /\ InFlight
    /\ zooms >= 1
    /\ running # {}
    /\ events # <<>>
    /\ Head(events).type = "MouseButtonDown"

(***************************************************************************)
(* C16: with main's max_iterations = 256 every entry i of a generated      *)
(* field is below max_iterations, and the palette index                    *)
(* floor(colors.len() * i / max_iterations) of every such i is below       *)
(* colors.len() = 255: the conversion in render_mandelbrot never panics.   *)
(***************************************************************************)
C16_PaletteInBounds ==
    /\ mpc # "panicked"
    /\ \A i \in 0..(max_iterations - 1) : palette_index(i, max_iterations) < colors_len
    /\ Returned =>
          /\ \A r \in DOMAIN field : \A col \in DOMAIN field[r] :
                field[r][col] < max_iterations
          /\ in_palette(convert(field, max_iterations))
    /\ mpc = "draw" => texture = convert(field, max_iterations) /\ in_palette(texture)

\* A converted field with a sample that never escapes and one that escapes at 2
C16_Witness ==
    /\ mpc = "draw"
    /\ max_iterations = main_max_iterations
    /\ \E r \in DOMAIN field : \E col \in DOMAIN field[r] :
          /\ field[r][col] = 2
          /\ texture[r][col] = 1
    /\ \E r \in DOMAIN field : \E col \in DOMAIN field[r] :
          /\ field[r][col] = 0
          /\ ~EscapesWithin(samples[r - 1][col], 4)

(***************************************************************************)
(* C17, as stated: every click is followed, before any further event is    *)
(* handled, by one regeneration, and every regeneration by a presentation. *)
(***************************************************************************)
What(k) == log[k].what

IsEvent(k) == What(k) \in {"click", "window"}

=============================================================================
